---- MODULE Spec2Model ----
(***************************************************************************)
(* Annotate-and-confirm handlers of ezkonnect-server.                      *)
(*                                                                         *)
(* Spec       : the handlers with the confirmation watch                   *)
(*              (UpdateTracesResourceAnnotations of unnamed/part_009 and   *)
(*              UpdateLogsResourceAnnotations of api/annotate/logs.go,     *)
(*              lines 220-380) over the constants of api/common.go.        *)
(* FairSpec   : Spec with the fairness the Go scheduler and the context    *)
(*              deadline give.                                             *)
(* SpecConflict : Spec with another writer that updates a workload between *)
(*              the handler's Get and its Update.                          *)
(* SpecLegacy : UpdateTracesResourceAnnotations of api/annotate/traces.go  *)
(*              over api.Contains of unnamed/part_010.                     *)
(* SpecValidation : the validation step of the three handlers over request *)
(*              items whose controller_kind is spelled in either case.     *)
(* SpecState  : GetCustomResourcesHandler of unnamed/part_007, which       *)
(*              projects the listed InstrumentedApplication resources to   *)
(*              records.                                                   *)
(* SpecPolicy : the annotation change each handler version makes to one    *)
(*              workload, item after item (part_009, the two logs handlers *)
(*              of api/annotate/logs.go, api/annotate/annotate.go).        *)
(***************************************************************************)
EXTENDS Integers, Sequences, FiniteSets, TLC

\* ------------------------------------------------------------------ bounds
\* Longest request batch.
MaxBatch == 2
\* Number of changes other actors make to the custom resources during a request.
MaxEvents == 2
\* Longest list of custom resources the state handler reads.
MaxItems == 2
\* Longest languages list of a custom resource.
MaxEntries == 2

\* --------------------------------------------------------------- constants
KindDeployment == "deployment"
KindStatefulSet == "statefulSet"
ActionAdd == "add"
ActionDelete == "delete"
ValidKinds == <<KindDeployment, KindStatefulSet>>
ValidActions == <<ActionAdd, ActionDelete>>

InstrumentationAnnotation == "logz.io/traces_instrument"
ServiceNameAnnotation == "logz.io/service-name"
LogTypeAnnotation == "logz.io/application_type"

StatusOK == 200
StatusBadRequest == 400
StatusInternalServerError == 500
\* No response written yet.
NoStatus == 0

\* ------------------------------------------------------------------ inputs
Names == {"web", "db"}
KindInputs == {"deployment", "statefulset", "pod"}
ActionInputs == {"add", "delete", "purge"}
ServiceNameInputs == {"", "svc"}
LogTypeInputs == {"", "nginx"}

\* TracesResourceRequest / LogsResourceRequest, one record shape for both:
\* the fields a request type does not have are "".
TracesRequests ==
    [name : Names, kind : KindInputs, action : ActionInputs,
     service_name : {""}, log_type : {""}]

LogsRequests ==
    [name : Names, kind : KindInputs, action : {""},
     service_name : {""}, log_type : LogTypeInputs]

\* traces.go of api/annotate has no service_name field.
LegacyTracesRequests ==
    [name : Names, kind : KindInputs, action : ActionInputs,
     service_name : {""}, log_type : {""}]

Batches(S) == UNION {[1..n -> S] : n \in 0..MaxBatch}

\* The API objects a clientset call addresses.
WorkloadIds == {"Deployment", "StatefulSet"} \X Names

\* ------------------------------------------------------------------- maps
EmptyMap == [x \in {} |-> ""]

SetKey(m, k, v) == [x \in DOMAIN m \cup {k} |-> IF x = k THEN v ELSE m[x]]

DeleteKey(m, k) == [x \in DOMAIN m \ {k} |-> m[x]]

\* strings.ToLower on the strings of the model.
ToLower(s) ==
    CASE s = "statefulSet" -> "statefulset"
      [] s = "StatefulSet" -> "statefulset"
      [] s = "Deployment" -> "deployment"
      [] OTHER -> s

\* Mutant: two decoded maps never compare equal, as if compared by identity.
DeepEqualMapNever(a, b) == FALSE

\* api.DeepEqualMap
DeepEqualMap(a, b) ==
    IF Cardinality(DOMAIN a) # Cardinality(DOMAIN b)
    THEN FALSE
    ELSE \A k \in DOMAIN a : k \in DOMAIN b /\ a[k] = b[k]

\* api.Contains of unnamed/part_010: the comparison has an empty body and the
\* return sits inside the loop, so the first iteration returns true.
Contains(slice, value) == Len(slice) > 0

\* ------------------------------------------------------------- validation
isValidTracesResourceRequest(req) ==
    LET isValidAction == \E n \in DOMAIN ValidActions : req.action = ToLower(ValidActions[n])
        isValidKind == \E n \in DOMAIN ValidKinds : req.kind = ToLower(ValidKinds[n])
    IN isValidKind /\ isValidAction

validateTracesResourceRequests(rs) ==
    \A n \in DOMAIN rs : isValidTracesResourceRequest(rs[n])

isValidLogsResourceRequest(req) ==
    \E n \in DOMAIN ValidKinds : req.kind = ToLower(ValidKinds[n])

validateLogsResourceRequests(rs) ==
    \A n \in DOMAIN rs : isValidLogsResourceRequest(rs[n])

\* isValidTracesResourceRequest of api/annotate/traces.go
isValidLegacyTracesResourceRequest(req) ==
    Contains(<<"deployment", "statefulset">>, req.kind)
        /\ Contains(<<"add", "delete">>, req.action)

\* ------------------------------------------------------ annotation policy
\* Mutant: delete is written as "false".
TracesAnnotationsFalse(resource) ==
    LET actionValue == IF resource.action = ActionDelete THEN "false" ELSE "true"
        base == SetKey(EmptyMap, InstrumentationAnnotation, actionValue)
    IN IF resource.service_name # ""
       THEN SetKey(base, ServiceNameAnnotation, resource.service_name)
       ELSE base

\* The annotations map built for a traces item.
TracesAnnotations(resource) ==
    LET actionValue == IF resource.action = ActionDelete THEN "rollback" ELSE "true"
        base == SetKey(EmptyMap, InstrumentationAnnotation, actionValue)
    IN IF resource.service_name # ""
       THEN SetKey(base, ServiceNameAnnotation, resource.service_name)
       ELSE base

\* The annotations map built for a logs item (also its updated_annotations).
LogsAnnotations(resource) == SetKey(EmptyMap, LogTypeAnnotation, resource.log_type)

\* Mutant: the pod-template annotations are replaced by the item's map.
MergeAnnotationsReplace(ann, delta) == delta

\* for k, v := range annotations { ...Annotations[k] = v }
MergeAnnotations(ann, delta) ==
    [k \in DOMAIN ann \cup DOMAIN delta |-> IF k \in DOMAIN delta THEN delta[k] ELSE ann[k]]

\* Mutant: the key is toggled: removed when present, set when absent.
ApplyLogTypeToggle(ann, value) ==
    IF LogTypeAnnotation \in DOMAIN ann
    THEN DeleteKey(ann, LogTypeAnnotation)
    ELSE SetKey(ann, LogTypeAnnotation, value)

\* if len(value) != 0 { set } else { delete }
ApplyLogType(ann, value) ==
    IF value # ""
    THEN SetKey(ann, LogTypeAnnotation, value)
    ELSE DeleteKey(ann, LogTypeAnnotation)

\* ------------------------------------------------------------------ state
VARIABLES
    handler,        \* "traces" | "logs" | "legacy": which handler serves the request
    resources,      \* the decoded request batch
    pc,             \* position of the handler
    i,              \* index of the item the range loop is at
    status,         \* HTTP status written, NoStatus before
    responses,      \* the responses slice
    ctx,            \* "none" | "armed" | "done": the context with the deadline
    obj,            \* pod-template annotations of the workload fetched by Get
    workloads,      \* cluster: pod-template annotations per workload
    cr,             \* cluster: InstrumentedApplication documents per name
    events,         \* changes other actors made to the cluster so far
    stale,          \* another writer changed the workload after it was fetched into obj
    informer,       \* per item: "none" | "starting" | "running" | "stopped"
    updateCh,       \* per item: UpdateFunc calls blocked in, or queued behind, the send
    gets,           \* history: Get calls issued per item
    puts,           \* history: Update calls issued per item
    written,        \* history: items whose Update succeeded
    qualified,      \* history: items whose watch saw an event with a differing sub-document
    outcome,        \* history: "none" | "confirmed" | "timedOut" | "error" per item
    items,          \* the custom resources the List call of the state handler returns
    data,           \* the records the state handler has built
    version,        \* cluster: resourceVersion of the workload two requests contend for
    reqs            \* per concurrent request: its item, position, fetched object and version

vars ==
    <<handler, resources, pc, i, status, responses, ctx, obj, workloads, cr, events,
      stale, informer, updateCh, gets, puts, written, qualified, outcome, items, data,
      version, reqs>>

clusterVars == <<cr, events, stale>>
histVars == <<gets, puts, written, qualified, outcome>>
stateVars == <<items, data, version, reqs>>

Idx == DOMAIN resources

\* Documents of the model: the status and the spec of an InstrumentedApplication.
StatusDocs == {[tracesInstrumented |-> "false"], [tracesInstrumented |-> "true"]}
SpecDocs == {EmptyMap, [logType |-> "nginx"]}
InitAnnotations == [x \in {"team"} |-> "core"]

InitCommon ==
    /\ i = 1
    /\ status = NoStatus
    /\ responses = <<>>
    /\ ctx = "none"
    /\ obj = EmptyMap
    /\ workloads = [w \in WorkloadIds |-> InitAnnotations]
    /\ cr = [n \in Names |-> [status |-> [tracesInstrumented |-> "false"], spec |-> EmptyMap]]
    /\ events = 0
    /\ stale = FALSE
    /\ informer = [n \in Idx |-> "none"]
    /\ updateCh = [n \in Idx |-> 0]
    /\ gets = [n \in Idx |-> 0]
    /\ puts = [n \in Idx |-> 0]
    /\ written = {}
    /\ qualified = {}
    /\ outcome = [n \in Idx |-> "none"]
    /\ items = <<>>
    /\ data = <<>>
    /\ version = 0
    /\ reqs = <<>>

Init ==
    /\ handler \in {"traces", "logs"}
    /\ resources \in Batches(IF handler = "traces" THEN TracesRequests ELSE LogsRequests)
    /\ pc = "validate"
    /\ InitCommon

\* -------------------------------------------------------- handler helpers
\* Mutant: every handler's UpdateFunc compares the status.
WatchedFieldStatus == "status"

\* The sub-document the item's UpdateFunc compares.
WatchedField == IF handler = "traces" THEN "status" ELSE "spec"

\* Mutant: the handler signals on every update event, without comparing.
UpdateFuncNoCompare(oldObj, newObj) == TRUE

\* UpdateFunc: whether the call sends on updateCh.
UpdateFunc(oldObj, newObj) == ~DeepEqualMap(oldObj[WatchedField], newObj[WatchedField])

\* The case of `switch resource.Kind` taken, as the API object kind it addresses.
SwitchKind(kind) ==
    IF kind = KindDeployment THEN "Deployment"
    ELSE IF kind = KindStatefulSet THEN "StatefulSet"
    ELSE "none"

Annotations(resource) ==
    IF handler = "logs" THEN LogsAnnotations(resource) ELSE TracesAnnotations(resource)

\* The pod-template annotations after the handler's modification.
Modified(ann, resource) ==
    IF handler = "logs"
    THEN ApplyLogType(ann, resource.log_type)
    ELSE MergeAnnotations(ann, Annotations(resource))

Response(resource) ==
    [name |-> resource.name, kind |-> resource.kind,
     updated_annotations |-> Annotations(resource)]

\* ctx.Done() closes: every informer started with it stops.
StopInformers == [n \in Idx |-> IF informer[n] = "none" THEN "none" ELSE "stopped"]

\* http.Error / WriteHeader followed by return: the deferred cancel() runs.
Return(code) ==
    /\ status' = code
    /\ pc' = "done"
    /\ ctx' = IF ctx = "none" THEN "none" ELSE "done"
    /\ informer' = StopInformers

\* ---------------------------------------------------------------- actions
\* validate...ResourceRequests, then GetTimeout and context.WithTimeout.
Validate ==
    /\ pc = "validate"
    /\ IF (handler = "traces" /\ validateTracesResourceRequests(resources))
          \/ (handler = "logs" /\ validateLogsResourceRequests(resources))
       THEN /\ pc' = "loop"
            /\ ctx' = "armed"
            /\ UNCHANGED <<status, informer>>
       ELSE Return(StatusBadRequest)
    /\ UNCHANGED <<handler, resources, i, responses, obj, workloads, updateCh>>
    /\ UNCHANGED clusterVars
    /\ UNCHANGED stateVars
    /\ UNCHANGED histVars

\* Top of the range loop: make(chan), the informer factory, AddEventHandler and
\* dynamicFactory.Start(ctx.Done()), which only launches the informer's goroutine.
StartWatch ==
    /\ pc = "loop"
    /\ i \in Idx
    /\ informer' = [informer EXCEPT ![i] = IF ctx = "done" THEN "stopped" ELSE "starting"]
    /\ pc' = "switch"
    /\ UNCHANGED <<handler, resources, i, status, responses, ctx, obj, workloads, updateCh>>
    /\ UNCHANGED clusterVars
    /\ UNCHANGED stateVars
    /\ UNCHANGED histVars

\* The informer's goroutine finishes its initial list and opens the watch.
InformerSync(n) ==
    /\ informer[n] = "starting"
    /\ informer' = [informer EXCEPT ![n] = "running"]
    /\ UNCHANGED <<handler, resources, pc, i, status, responses, ctx, obj, workloads, updateCh>>
    /\ UNCHANGED clusterVars
    /\ UNCHANGED stateVars
    /\ UNCHANGED histVars

\* Mutant: a failed Get is tried again instead of ending the request.
GetWorkloadRetry ==
    /\ pc = "switch"
    /\ LET kind == SwitchKind(resources[i].kind)
       IN IF kind = "none"
          THEN /\ pc' = "select"
               /\ UNCHANGED <<obj, gets>>
          ELSE /\ gets' = [gets EXCEPT ![i] = @ + 1]
               /\ \E ok \in BOOLEAN :
                    IF ok
                    THEN /\ obj' = workloads[<<kind, resources[i].name>>]
                         /\ pc' = "update"
                    ELSE /\ gets[i] < 2
                         /\ UNCHANGED <<obj, pc>>
    /\ UNCHANGED <<handler, resources, i, status, responses, ctx, workloads, informer, updateCh>>
    /\ UNCHANGED clusterVars
    /\ UNCHANGED stateVars
    /\ UNCHANGED <<puts, written, qualified, outcome>>

\* switch resource.Kind and the Get of the matching case.
GetWorkload ==
    /\ pc = "switch"
    /\ LET kind == SwitchKind(resources[i].kind)
       IN IF kind = "none"
          THEN /\ pc' = "select"
               /\ UNCHANGED <<status, ctx, informer, obj, gets, outcome>>
          ELSE /\ gets' = [gets EXCEPT ![i] = @ + 1]
               /\ \E ok \in BOOLEAN :
                    IF ok
                    THEN /\ obj' = workloads[<<kind, resources[i].name>>]
                         /\ pc' = "update"
                         /\ UNCHANGED <<status, ctx, informer, outcome>>
                    ELSE /\ Return(StatusInternalServerError)
                         /\ outcome' = [outcome EXCEPT ![i] = "error"]
                         /\ UNCHANGED obj
    /\ UNCHANGED <<handler, resources, i, responses, workloads, updateCh>>
    /\ UNCHANGED clusterVars
    /\ UNCHANGED stateVars
    /\ UNCHANGED <<puts, written, qualified>>

\* Mutant: after a successful Update the loop goes on to the next item without
\* waiting for the confirmation.
UpdateWorkloadNoWait ==
    /\ pc = "update"
    /\ puts' = [puts EXCEPT ![i] = @ + 1]
    /\ workloads' = [workloads EXCEPT
          ![<<SwitchKind(resources[i].kind), resources[i].name>>] = Modified(obj, resources[i])]
    /\ responses' = Append(responses, Response(resources[i]))
    /\ written' = written \cup {i}
    /\ i' = i + 1
    /\ pc' = "loop"
    /\ UNCHANGED <<handler, resources, status, ctx, informer, obj, updateCh>>
    /\ UNCHANGED clusterVars
    /\ UNCHANGED stateVars
    /\ UNCHANGED <<gets, qualified, outcome>>

\* Mutant: an Update refused because the workload changed since the Get is
\* followed by a new Get, and the change is applied to the fresh object.
UpdateWorkloadRetryOnConflict ==
    /\ pc = "update"
    /\ puts' = [puts EXCEPT ![i] = @ + 1]
    /\ IF stale
       THEN /\ obj' = workloads[<<SwitchKind(resources[i].kind), resources[i].name>>]
            /\ gets' = [gets EXCEPT ![i] = @ + 1]
            /\ stale' = FALSE
            /\ UNCHANGED <<pc, status, ctx, informer, outcome, workloads, responses, written>>
       ELSE /\ workloads' = [workloads EXCEPT
                  ![<<SwitchKind(resources[i].kind), resources[i].name>>] =
                      Modified(obj, resources[i])]
            /\ responses' = Append(responses, Response(resources[i]))
            /\ written' = written \cup {i}
            /\ pc' = "select"
            /\ UNCHANGED <<status, ctx, informer, outcome, obj, gets, stale>>
    /\ UNCHANGED <<handler, resources, i, updateCh, cr, events, qualified>>
    /\ UNCHANGED stateVars

\* The annotation change on the fetched object and the Update call. The
\* object carries the resourceVersion of the Get: the API server refuses the
\* Update with a conflict when the workload was changed since.
UpdateWorkload ==
    /\ pc = "update"
    /\ puts' = [puts EXCEPT ![i] = @ + 1]
    /\ \E ok \in (IF stale THEN {FALSE} ELSE BOOLEAN) :
         IF ok
         THEN /\ workloads' = [workloads EXCEPT
                    ![<<SwitchKind(resources[i].kind), resources[i].name>>] =
                        Modified(obj, resources[i])]
              /\ responses' = Append(responses, Response(resources[i]))
              /\ written' = written \cup {i}
              /\ pc' = "select"
              /\ UNCHANGED <<status, ctx, informer, outcome>>
         ELSE /\ Return(StatusInternalServerError)
              /\ outcome' = [outcome EXCEPT ![i] = "error"]
              /\ UNCHANGED <<workloads, responses, written>>
    /\ UNCHANGED <<handler, resources, i, obj, updateCh>>
    /\ UNCHANGED clusterVars
    /\ UNCHANGED stateVars
    /\ UNCHANGED <<gets, qualified>>

\* Mutant: a confirmation gives the rest of the batch a fresh deadline.
SelectUpdateRearm ==
    /\ pc = "select"
    /\ updateCh[i] > 0
    /\ updateCh' = [updateCh EXCEPT ![i] = @ - 1]
    /\ outcome' = [outcome EXCEPT ![i] = "confirmed"]
    /\ i' = i + 1
    /\ pc' = "loop"
    /\ ctx' = "armed"
    /\ UNCHANGED <<handler, resources, status, responses, obj, workloads, informer>>
    /\ UNCHANGED clusterVars
    /\ UNCHANGED stateVars
    /\ UNCHANGED <<gets, puts, written, qualified>>

\* select, case <-updateCh
SelectUpdate ==
    /\ pc = "select"
    /\ updateCh[i] > 0
    /\ updateCh' = [updateCh EXCEPT ![i] = @ - 1]
    /\ outcome' = [outcome EXCEPT ![i] = "confirmed"]
    /\ i' = i + 1
    /\ pc' = "loop"
    /\ UNCHANGED <<handler, resources, status, responses, ctx, obj, workloads, informer>>
    /\ UNCHANGED clusterVars
    /\ UNCHANGED stateVars
    /\ UNCHANGED <<gets, puts, written, qualified>>

\* Mutant: on the deadline the item's annotations are written back as fetched.
SelectTimeoutRollback ==
    /\ pc = "select"
    /\ ctx = "done"
    /\ Return(StatusInternalServerError)
    /\ outcome' = [outcome EXCEPT ![i] = "timedOut"]
    /\ workloads' = IF i \in written
                    THEN [workloads EXCEPT
                            ![<<SwitchKind(resources[i].kind), resources[i].name>>] = obj]
                    ELSE workloads
    /\ UNCHANGED <<handler, resources, i, responses, obj, updateCh>>
    /\ UNCHANGED clusterVars
    /\ UNCHANGED stateVars
    /\ UNCHANGED <<gets, puts, written, qualified>>

\* Mutant: on the deadline the loop gives the item up and goes on to the next one.
SelectTimeoutContinue ==
    /\ pc = "select"
    /\ ctx = "done"
    /\ outcome' = [outcome EXCEPT ![i] = "timedOut"]
    /\ i' = i + 1
    /\ pc' = "loop"
    /\ UNCHANGED <<handler, resources, status, responses, ctx, obj, workloads, informer, updateCh>>
    /\ UNCHANGED clusterVars
    /\ UNCHANGED stateVars
    /\ UNCHANGED <<gets, puts, written, qualified>>

\* Mutant: the select has no <-ctx.Done() case.
SelectWithoutDeadline ==
    /\ pc = "select"
    /\ FALSE
    /\ UNCHANGED vars

\* select, case <-ctx.Done()
SelectTimeout ==
    /\ pc = "select"
    /\ ctx = "done"
    /\ Return(StatusInternalServerError)
    /\ outcome' = [outcome EXCEPT ![i] = "timedOut"]
    /\ UNCHANGED <<handler, resources, i, responses, obj, workloads, updateCh>>
    /\ UNCHANGED clusterVars
    /\ UNCHANGED stateVars
    /\ UNCHANGED <<gets, puts, written, qualified>>

\* After the loop: 200 and the encoded responses.
Respond ==
    /\ pc = "loop"
    /\ i \notin Idx
    /\ Return(StatusOK)
    /\ UNCHANGED <<handler, resources, i, responses, obj, workloads, updateCh>>
    /\ UNCHANGED clusterVars
    /\ UNCHANGED stateVars
    /\ UNCHANGED histVars

\* The deadline of context.WithTimeout elapses.
Deadline ==
    /\ ctx = "armed"
    /\ ctx' = "done"
    /\ informer' = StopInformers
    /\ UNCHANGED <<handler, resources, pc, i, status, responses, obj, workloads, updateCh>>
    /\ UNCHANGED clusterVars
    /\ UNCHANGED stateVars
    /\ UNCHANGED histVars

\* Mutant: the informers are not filtered by name, every running one hears
\* every custom resource.
ChangeCRUnfiltered(n, field, doc) ==
    /\ events < MaxEvents
    /\ pc \notin {"validate", "done"}
    /\ doc # cr[n][field]
    /\ LET oldObj == cr[n]
           newObj == [cr[n] EXCEPT ![field] = doc]
           hears(k) == informer[k] = "running"
       IN /\ cr' = [cr EXCEPT ![n] = newObj]
          /\ updateCh' = [k \in Idx |->
                IF hears(k) /\ UpdateFunc(oldObj, newObj) THEN updateCh[k] + 1 ELSE updateCh[k]]
          /\ qualified' = qualified \cup
                {k \in Idx : hears(k) /\ oldObj[WatchedField] # newObj[WatchedField]}
    /\ events' = events + 1
    /\ UNCHANGED <<handler, resources, pc, i, status, responses, ctx, obj, workloads, informer>>
    /\ UNCHANGED <<stale, gets, puts, written, outcome>>
    /\ UNCHANGED stateVars

\* Another actor (the operator) changes one sub-document of a custom resource;
\* every running informer on that name calls its UpdateFunc with old and new.
ChangeCR(n, field, doc) ==
    /\ events < MaxEvents
    /\ pc \notin {"validate", "done"}
    /\ doc # cr[n][field]
    /\ LET oldObj == cr[n]
           newObj == [cr[n] EXCEPT ![field] = doc]
           hears(k) == informer[k] = "running" /\ resources[k].name = n
       IN /\ cr' = [cr EXCEPT ![n] = newObj]
          /\ updateCh' = [k \in Idx |->
                IF hears(k) /\ UpdateFunc(oldObj, newObj) THEN updateCh[k] + 1 ELSE updateCh[k]]
          /\ qualified' = qualified \cup
                {k \in Idx : hears(k) /\ oldObj[WatchedField] # newObj[WatchedField]}
    /\ events' = events + 1
    /\ UNCHANGED <<handler, resources, pc, i, status, responses, ctx, obj, workloads, informer>>
    /\ UNCHANGED <<stale, gets, puts, written, outcome>>
    /\ UNCHANGED stateVars

\* The resync of item k's informer (every second), or a change of the custom
\* resource's metadata only: UpdateFunc is called with an old and a new object
\* whose status and spec are the same.
Resync(k) ==
    /\ events < MaxEvents
    /\ informer[k] = "running"
    /\ LET oldObj == cr[resources[k].name]
           newObj == cr[resources[k].name]
       IN updateCh' = [updateCh EXCEPT ![k] = IF UpdateFunc(oldObj, newObj) THEN @ + 1 ELSE @]
    /\ events' = events + 1
    /\ UNCHANGED <<handler, resources, pc, i, status, responses, ctx, obj, workloads, informer>>
    /\ UNCHANGED <<cr, stale, gets, puts, written, qualified, outcome>>
    /\ UNCHANGED stateVars

\* Another writer updates the workload between the handler's Get and its
\* Update: the workload's resourceVersion moves past the one held in obj.
ConcurrentWrite ==
    /\ pc = "update"
    /\ ~stale
    /\ events < MaxEvents
    /\ workloads' = [workloads EXCEPT
          ![<<SwitchKind(resources[i].kind), resources[i].name>>] = SetKey(@, "owner", "ops")]
    /\ stale' = TRUE
    /\ events' = events + 1
    /\ UNCHANGED <<handler, resources, pc, i, status, responses, ctx, obj, informer, updateCh, cr>>
    /\ UNCHANGED histVars
    /\ UNCHANGED stateVars

Next ==
    \/ Validate
    \/ StartWatch
    \/ \E n \in Idx : InformerSync(n)
    \/ GetWorkload
    \/ UpdateWorkload
    \/ SelectUpdate
    \/ SelectTimeout
    \/ Respond
    \/ Deadline
    \/ \E n \in Names : \E doc \in StatusDocs : ChangeCR(n, "status", doc)
    \/ \E n \in Names : \E doc \in SpecDocs : ChangeCR(n, "spec", doc)

Spec == Init /\ [][Next]_vars

\* Every step of the handler's own goroutine.
HandlerStep ==
    \/ Validate
    \/ StartWatch
    \/ GetWorkload
    \/ UpdateWorkload
    \/ SelectUpdate
    \/ SelectTimeout
    \/ Respond

\* The handler's goroutine is scheduled while it can take a step (its Get and
\* Update calls return), and the timer of context.WithTimeout fires.
FairSpec ==
    /\ Spec
    /\ WF_vars(HandlerStep)
    /\ WF_vars(Deadline)

\* The handlers with another writer of the workloads at work.
NextConflict ==
    \/ Next
    \/ ConcurrentWrite

NextResync ==
    \/ Next
    \/ \E k \in Idx : Resync(k)

SpecResync == Init /\ [][NextResync]_vars

SpecConflict == Init /\ [][NextConflict]_vars

\* ----------------------------------------- api/annotate/traces.go handler
InitLegacy ==
    /\ handler = "legacy"
    /\ resources \in Batches(LegacyTracesRequests)
    /\ pc = "loop"
    /\ InitCommon

\* switch resource.Kind { case "deployment": ... case "statefulset": ... }
LegacySwitchKind(kind) ==
    IF kind = "deployment" THEN "Deployment"
    ELSE IF kind = "statefulset" THEN "StatefulSet"
    ELSE "none"

\* Top of the range loop: the item is validated; after the loop, 200.
LegacyValidateItem ==
    /\ pc = "loop"
    /\ IF i \notin Idx
       THEN Return(StatusOK)
       ELSE IF ~isValidLegacyTracesResourceRequest(resources[i])
            THEN Return(StatusBadRequest)
            ELSE /\ pc' = "switch"
                 /\ UNCHANGED <<status, ctx, informer>>
    /\ UNCHANGED <<handler, resources, i, responses, obj, workloads, updateCh>>
    /\ UNCHANGED clusterVars
    /\ UNCHANGED stateVars
    /\ UNCHANGED histVars

LegacyGetWorkload ==
    /\ pc = "switch"
    /\ LET kind == LegacySwitchKind(resources[i].kind)
       IN IF kind = "none"
          THEN /\ pc' = "loop"
               /\ i' = i + 1
               /\ UNCHANGED <<status, ctx, informer, obj, gets, outcome>>
          ELSE /\ gets' = [gets EXCEPT ![i] = @ + 1]
               /\ \E ok \in BOOLEAN :
                    IF ok
                    THEN /\ obj' = workloads[<<kind, resources[i].name>>]
                         /\ pc' = "update"
                         /\ UNCHANGED <<status, ctx, informer, outcome, i>>
                    ELSE /\ Return(StatusInternalServerError)
                         /\ outcome' = [outcome EXCEPT ![i] = "error"]
                         /\ UNCHANGED <<obj, i>>
    /\ UNCHANGED <<handler, resources, responses, workloads, updateCh>>
    /\ UNCHANGED clusterVars
    /\ UNCHANGED stateVars
    /\ UNCHANGED <<puts, written, qualified>>

LegacyUpdateWorkload ==
    /\ pc = "update"
    /\ puts' = [puts EXCEPT ![i] = @ + 1]
    /\ \E ok \in BOOLEAN :
         IF ok
         THEN /\ workloads' = [workloads EXCEPT
                    ![<<LegacySwitchKind(resources[i].kind), resources[i].name>>] =
                        MergeAnnotations(obj, TracesAnnotations(resources[i]))]
              /\ responses' = Append(responses,
                    [name |-> resources[i].name, kind |-> resources[i].kind,
                     updated_annotations |-> TracesAnnotations(resources[i])])
              /\ written' = written \cup {i}
              /\ i' = i + 1
              /\ pc' = "loop"
              /\ UNCHANGED <<status, ctx, informer, outcome>>
         ELSE /\ Return(StatusInternalServerError)
              /\ outcome' = [outcome EXCEPT ![i] = "error"]
              /\ UNCHANGED <<workloads, responses, written, i>>
    /\ UNCHANGED <<handler, resources, obj, updateCh>>
    /\ UNCHANGED clusterVars
    /\ UNCHANGED stateVars
    /\ UNCHANGED <<gets, qualified>>

NextLegacy ==
    \/ LegacyValidateItem
    \/ LegacyGetWorkload
    \/ LegacyUpdateWorkload

SpecLegacy == InitLegacy /\ [][NextLegacy]_vars

\* ----------------------------------------------- validation of a request
\* controller_kind values a client may send, in both spellings.
ValidationKindInputs == {"deployment", "statefulset", "Deployment", "StatefulSet", "pod"}

ValidationRequests ==
    [name : {"web"}, kind : ValidationKindInputs,
     action : IF handler = "logs" THEN {""} ELSE ActionInputs,
     service_name : {""}, log_type : {""}]

InitValidation ==
    /\ handler \in {"traces", "logs", "legacy"}
    /\ resources \in Batches(ValidationRequests)
    /\ pc = IF handler = "legacy" THEN "loop" ELSE "validate"
    /\ InitCommon

NextValidation ==
    \/ Validate
    \/ LegacyValidateItem

SpecValidation == InitValidation /\ [][NextValidation]_vars

\* --------------------------------------- annotation change, item by item
\* The handler versions that write pod-template annotations:
\*   "traces"     UpdateTracesResourceAnnotations of unnamed/part_009
\*   "logs"       UpdateLogsResourceAnnotations of logs.go, lines 220-380
\*   "legacylogs" UpdateLogsResourceAnnotations of logs.go, lines 435-534
\*   "generic"    UpdateResourceAnnotations of annotate.go
PolicyHandlers == {"traces", "logs", "legacylogs", "generic"}

\* Items that pass the handler's validation, with every optional field drawn.
PolicyRequests(h) ==
    [name : {"web"}, kind : {"deployment"},
     action : IF h \in {"traces", "generic"} THEN {"add", "delete"} ELSE {""},
     service_name : IF h = "traces" THEN ServiceNameInputs ELSE {""},
     log_type : IF h \in {"logs", "legacylogs"} THEN LogTypeInputs ELSE {""},
     telemetry_type : IF h = "generic" THEN {"metrics", "traces"} ELSE {""}]

PolicyTarget == <<"Deployment", "web">>

\* The annotations map built by UpdateResourceAnnotations of annotate.go.
GenericAnnotations(resource) ==
    LET annotationKey == IF resource.telemetry_type = "metrics"
                         THEN "logz.io/export-metrics"
                         ELSE "logz.io/instrument"
        value == IF resource.action = "delete" THEN "false" ELSE "true"
    IN SetKey(EmptyMap, annotationKey, value)

\* The annotations map of the item, which is also its updated_annotations.
PolicyAnnotations(resource) ==
    IF handler = "generic" THEN GenericAnnotations(resource)
    ELSE IF handler = "legacylogs" THEN LogsAnnotations(resource)
    ELSE Annotations(resource)

\* The pod-template annotations after the handler's modification.
PolicyModified(ann, resource) ==
    IF handler \in {"generic", "legacylogs"}
    THEN MergeAnnotations(ann, PolicyAnnotations(resource))
    ELSE Modified(ann, resource)

InitPolicy ==
    /\ handler \in PolicyHandlers
    /\ resources = <<>>
    /\ pc = "decode"
    /\ InitCommon

\* A request with one item arrives at handler h and is decoded and validated.
PolicyReceive(h, req) ==
    /\ pc = "decode"
    /\ handler' = h
    /\ resources' = <<req>>
    /\ pc' = "update"
    /\ UNCHANGED <<i, status, responses, ctx, obj, workloads, informer, updateCh>>
    /\ UNCHANGED clusterVars
    /\ UNCHANGED stateVars
    /\ UNCHANGED histVars

\* The Annotations field of a fetched pod template is nil exactly when the
\* template has no annotation: the field is left out of the encoded object.
IsNilMap(ann) == DOMAIN ann = {}

\* Whether the handler assigns to the fetched map without the nil check:
\* annotate.go does, and its annotations map always has an entry.
AssignsToNilMap(ann) == handler = "generic" /\ IsNilMap(ann)

\* Get, the change of the fetched pod-template annotations, Update, and the
\* item's response. An assignment to an entry of a nil map panics: the
\* request ends there, without Update and without answer.
PolicyApply ==
    /\ pc = "update"
    /\ obj' = workloads[PolicyTarget]
    /\ IF AssignsToNilMap(workloads[PolicyTarget])
       THEN /\ pc' = "panic"
            /\ UNCHANGED <<workloads, responses>>
       ELSE /\ workloads' = [workloads EXCEPT
                  ![PolicyTarget] = PolicyModified(workloads[PolicyTarget], resources[1])]
            /\ responses' = <<[name |-> resources[1].name, kind |-> resources[1].kind,
                               updated_annotations |-> PolicyAnnotations(resources[1])]>>
            /\ pc' = "decode"
    /\ UNCHANGED <<handler, resources, i, status, ctx, informer, updateCh>>
    /\ UNCHANGED clusterVars
    /\ UNCHANGED stateVars
    /\ UNCHANGED histVars

NextPolicy ==
    \/ \E h \in PolicyHandlers : \E req \in PolicyRequests(h) : PolicyReceive(h, req)
    \/ PolicyApply

SpecPolicy == InitPolicy /\ [][NextPolicy]_vars

\* The handlers serving requests for a workload whose pod template has no
\* annotation when the first request arrives.
InitNilMap ==
    /\ handler \in PolicyHandlers
    /\ resources = <<>>
    /\ pc = "decode"
    /\ i = 1
    /\ status = NoStatus
    /\ responses = <<>>
    /\ ctx = "none"
    /\ obj = EmptyMap
    /\ workloads = [w \in WorkloadIds |-> IF w = PolicyTarget THEN EmptyMap ELSE InitAnnotations]
    /\ cr = [n \in Names |-> [status |-> [tracesInstrumented |-> "false"], spec |-> EmptyMap]]
    /\ events = 0
    /\ stale = FALSE
    /\ informer = [n \in Idx |-> "none"]
    /\ updateCh = [n \in Idx |-> 0]
    /\ gets = [n \in Idx |-> 0]
    /\ puts = [n \in Idx |-> 0]
    /\ written = {}
    /\ qualified = {}
    /\ outcome = [n \in Idx |-> "none"]
    /\ items = <<>>
    /\ data = <<>>
    /\ version = 0
    /\ reqs = <<>>

SpecNilMap == InitNilMap /\ [][NextPolicy]_vars

\* ---------------------------------------------- GetCustomResourcesHandler
\* A nil pointer field of InstrumentdApplicationData (null in the JSON).
Null == "<nil>"

\* Names of custom resources, in the order List returns them: two workloads'
\* resources, one whose name has the reserved substring, and the instrumentor's.
NameOrder == <<"db", "ezkonnect-internal-foo", "kubernetes-instrumentor", "web">>

ResourceNames == {NameOrder[k] : k \in DOMAIN NameOrder}

NameIndex(name) == CHOOSE k \in DOMAIN NameOrder : NameOrder[k] = name

\* strings.Contains(name, "ezkonnect"), on the names of the model.
ContainsEzkonnect(name) == name \in {"ezkonnect-internal-foo", "ezkonnect-server"}

\* Mutant: the name is compared with the reserved word instead of searched for it.
IsInternalResourceExact(name) == name = "ezkonnect" \/ name = "kubernetes-instrumentor"

\* api.IsInternalResource
IsInternalResource(name) == ContainsEzkonnect(name) \/ name = "kubernetes-instrumentor"

\* The k-th entry of a languages list and of an applications list.
LanguageEntry(k) ==
    [containerName |-> IF k = 1 THEN "web" ELSE "app",
     language |-> IF k % 2 = 1 THEN "python" ELSE "java",
     opentelemetryPreconfigured |-> (k % 2 = 0)]

ApplicationEntry(k) == [containerName |-> "cache", application |-> "redis"]

\* The spec of a custom resource: a map holding logType and, each only when
\* nl (na) is not -1, a languages (applications) list of that length.
SpecMap(nl, na) ==
    [k \in {"logType"} \cup (IF nl >= 0 THEN {"languages"} ELSE {})
                        \cup (IF na >= 0 THEN {"applications"} ELSE {}) |->
        CASE k = "logType" -> "nginx"
          [] k = "languages" -> [j \in 1..nl |-> LanguageEntry(j)]
          [] k = "applications" -> [j \in 1..na |-> ApplicationEntry(j)]]

\* The status every custom resource of a name has.
StatusOf(name) ==
    [tracesInstrumented |-> (name = "web"),
     phase |-> IF name = "web" THEN "Completed" ELSE "Running"]

\* The custom resources that may exist under a name: every combination of
\* owner kind and detection lists, and one whose spec has no logType.
SourceDocs(name) ==
    {[name |-> name, namespace |-> "default",
      ownerKind |-> kind, ownerName |-> name,
      status |-> StatusOf(name),
      spec |-> SpecMap(nl, na)] :
        kind \in {"Deployment", "StatefulSet"}, nl \in -1..MaxEntries, na \in -1..1}
    \cup
    {[name |-> name, namespace |-> "default",
      ownerKind |-> "Deployment", ownerName |-> name,
      status |-> StatusOf(name),
      spec |-> [k \in {"languages"} |-> <<LanguageEntry(1)>>]]}

\* What List may return: resources of different names, in the order of their keys.
ItemLists ==
    UNION {{l \in [1..n -> UNION {SourceDocs(name) : name \in ResourceNames}] :
                \A a, b \in 1..n : a < b => NameIndex(l[a].name) < NameIndex(l[b].name)} :
           n \in 0..MaxItems}

\* Number of containers of a workload's pod template.
Containers(w) == IF w[2] = "web" THEN 1 ELSE 2

\* Mutant: the number of containers is looked at before the annotation.
calculateServiceNameContainersFirst(annotations, containers, ownerName, containerName) ==
    IF containers > 1 THEN containerName
    ELSE IF ServiceNameAnnotation \in DOMAIN annotations /\ annotations[ServiceNameAnnotation] # ""
    THEN annotations[ServiceNameAnnotation]
    ELSE IF ToLower(ownerName) = containerName THEN containerName
    ELSE ToLower(ownerName) \o "-" \o containerName

calculateServiceName(annotations, containers, ownerName, containerName) ==
    IF ServiceNameAnnotation \in DOMAIN annotations /\ annotations[ServiceNameAnnotation] # ""
    THEN annotations[ServiceNameAnnotation]
    ELSE IF containers > 1 THEN containerName
    ELSE IF ToLower(ownerName) = containerName THEN containerName
    ELSE ToLower(ownerName) \o "-" \o containerName

\* The service name of a languages entry: the switch on controllerKind.
ServiceName(item, containerName) ==
    LET controllerKind == ToLower(item.ownerKind)
    IN IF controllerKind = KindDeployment
       THEN calculateServiceName(workloads[<<"Deployment", item.ownerName>>],
                Containers(<<"Deployment", item.ownerName>>), item.ownerName, containerName)
       ELSE IF controllerKind = KindStatefulSet
       THEN calculateServiceName(workloads[<<"StatefulSet", item.ownerName>>],
                Containers(<<"StatefulSet", item.ownerName>>), item.ownerName, containerName)
       ELSE ""

\* Mutant: only the records of languages entries take the status fields.
EntryStatusOfLanguages(item, fields) ==
    [name |-> item.name,
     namespace |-> item.namespace,
     controller_kind |-> ToLower(item.ownerKind),
     traces_instrumented |-> IF fields.language # Null THEN item.status.tracesInstrumented ELSE FALSE,
     detection_status |-> IF fields.language # Null THEN item.status.phase ELSE "",
     log_type |-> item.spec["logType"],
     container_name |-> fields.container_name,
     service_name |-> fields.service_name,
     traces_instrumentable |-> fields.traces_instrumentable,
     application |-> fields.application,
     language |-> fields.language,
     opentelemetry_preconfigured |-> fields.opentelemetry_preconfigured]

\* The fields every entry takes from the item itself.
Entry(item, fields) ==
    [name |-> item.name,
     namespace |-> item.namespace,
     controller_kind |-> ToLower(item.ownerKind),
     traces_instrumented |-> item.status.tracesInstrumented,
     detection_status |-> item.status.phase,
     log_type |-> item.spec["logType"],
     container_name |-> fields.container_name,
     service_name |-> fields.service_name,
     traces_instrumentable |-> fields.traces_instrumentable,
     application |-> fields.application,
     language |-> fields.language,
     opentelemetry_preconfigured |-> fields.opentelemetry_preconfigured]

\* if langOk { for _, language := range languages { ... } }
LanguageEntries(item) ==
    IF "languages" \in DOMAIN item.spec
    THEN [j \in DOMAIN item.spec["languages"] |->
            LET language == item.spec["languages"][j]
            IN Entry(item,
                 [container_name |-> language.containerName,
                  service_name |-> ServiceName(item, language.containerName),
                  traces_instrumentable |-> TRUE,
                  application |-> Null,
                  language |-> language.language,
                  opentelemetry_preconfigured |-> language.opentelemetryPreconfigured])]
    ELSE <<>>

\* Mutant: the entries of applications are marked like those of languages.
ApplicationEntriesInstrumentable(item) ==
    IF "applications" \in DOMAIN item.spec
    THEN [j \in DOMAIN item.spec["applications"] |->
            LET application == item.spec["applications"][j]
            IN Entry(item,
                 [container_name |-> application.containerName,
                  service_name |-> Null,
                  traces_instrumentable |-> TRUE,
                  application |-> application.application,
                  language |-> Null,
                  opentelemetry_preconfigured |-> FALSE])]
    ELSE <<>>

\* if appOk { for _, application := range applications { ... } }
ApplicationEntries(item) ==
    IF "applications" \in DOMAIN item.spec
    THEN [j \in DOMAIN item.spec["applications"] |->
            LET application == item.spec["applications"][j]
            IN Entry(item,
                 [container_name |-> application.containerName,
                  service_name |-> Null,
                  traces_instrumentable |-> FALSE,
                  application |-> application.application,
                  language |-> Null,
                  opentelemetry_preconfigured |-> FALSE])]
    ELSE <<>>

\* Mutant: the single record is also built when the lists are there without entries.
BareEntriesWhenEmpty(item) ==
    IF /\ ("languages" \notin DOMAIN item.spec \/ Len(item.spec["languages"]) = 0)
       /\ ("applications" \notin DOMAIN item.spec \/ Len(item.spec["applications"]) = 0)
    THEN <<Entry(item,
             [container_name |-> Null,
              service_name |-> Null,
              traces_instrumentable |-> FALSE,
              application |-> Null,
              language |-> Null,
              opentelemetry_preconfigured |-> FALSE])>>
    ELSE <<>>

\* if !langOk && !appOk { ... }
BareEntries(item) ==
    IF "languages" \notin DOMAIN item.spec /\ "applications" \notin DOMAIN item.spec
    THEN <<Entry(item,
             [container_name |-> Null,
              service_name |-> Null,
              traces_instrumentable |-> FALSE,
              application |-> Null,
              language |-> Null,
              opentelemetry_preconfigured |-> FALSE])>>
    ELSE <<>>

\* The Get calls the item's languages loop issues: one per entry, in the
\* deployment case of the switch.
IssuesGet(item) ==
    /\ "languages" \in DOMAIN item.spec
    /\ Len(item.spec["languages"]) > 0
    /\ ToLower(item.ownerKind) \in {KindDeployment, KindStatefulSet}

\* Whether the Get calls of the item succeed: they may fail, and they do
\* fail when the owning workload does not exist.
GetResults(item) ==
    IF ~IssuesGet(item) THEN {TRUE}
    ELSE IF <<item.ownerKind, item.ownerName>> \in DOMAIN workloads THEN BOOLEAN
    ELSE {FALSE}

\* Everything but the state handler's own variables.
annotateVars ==
    <<handler, resources, responses, ctx, obj, workloads, cr, events, stale,
      informer, updateCh, gets, puts, written, qualified, outcome, version, reqs>>

InitState ==
    /\ handler = "state"
    /\ resources = <<>>
    /\ pc = "list"
    /\ i = 1
    /\ status = NoStatus
    /\ responses = <<>>
    /\ ctx = "none"
    /\ obj = EmptyMap
    /\ workloads = [w \in WorkloadIds |-> InitAnnotations]
    /\ cr = [n \in Names |-> [status |-> [tracesInstrumented |-> "false"], spec |-> EmptyMap]]
    /\ events = 0
    /\ stale = FALSE
    /\ informer = <<>>
    /\ updateCh = <<>>
    /\ gets = <<>>
    /\ puts = <<>>
    /\ written = {}
    /\ qualified = {}
    /\ outcome = <<>>
    /\ items \in ItemLists
    /\ data = <<>>
    /\ version = 0
    /\ reqs = <<>>

\* The pod template annotations a Deployment may carry when the state is
\* read: no service name, one, or the key with an empty value.
TemplateAnnotations ==
    {InitAnnotations,
     SetKey(InitAnnotations, ServiceNameAnnotation, "svc-x"),
     SetKey(InitAnnotations, ServiceNameAnnotation, "")}

\* The state handler started on resources owned by Deployments that have
\* language entries, the Deployments' pod templates annotated in every way.
InitServiceName ==
    /\ handler = "state"
    /\ resources = <<>>
    /\ pc = "list"
    /\ i = 1
    /\ status = NoStatus
    /\ responses = <<>>
    /\ ctx = "none"
    /\ obj = EmptyMap
    /\ workloads \in {w \in [WorkloadIds -> TemplateAnnotations] :
                        \A name \in Names : w[<<"StatefulSet", name>>] = InitAnnotations}
    /\ cr = [n \in Names |-> [status |-> [tracesInstrumented |-> "false"], spec |-> EmptyMap]]
    /\ events = 0
    /\ stale = FALSE
    /\ informer = <<>>
    /\ updateCh = <<>>
    /\ gets = <<>>
    /\ puts = <<>>
    /\ written = {}
    /\ qualified = {}
    /\ outcome = <<>>
    /\ items \in {l \in ItemLists :
                    /\ Len(l) > 0
                    /\ \A n \in DOMAIN l :
                          /\ l[n].name \in Names
                          /\ l[n].ownerKind = "Deployment"
                          /\ "applications" \notin DOMAIN l[n].spec
                          /\ "languages" \in DOMAIN l[n].spec
                          /\ Len(l[n].spec["languages"]) > 0}
    /\ data = <<>>
    /\ version = 0
    /\ reqs = <<>>

\* dynamicClient...List: the items, or 500.
ListResources ==
    /\ pc = "list"
    /\ \E ok \in BOOLEAN :
         IF ok
         THEN pc' = "range" /\ UNCHANGED status
         ELSE pc' = "done" /\ status' = StatusInternalServerError
    /\ UNCHANGED <<i, items, data>>
    /\ UNCHANGED annotateVars

\* Mutant: the handler marks the items it has projected.
ProjectItemMarking ==
    /\ pc = "range"
    /\ i \in DOMAIN items
    /\ LET item == items[i]
       IN IF IsInternalResource(item.name)
          THEN /\ i' = i + 1
               /\ UNCHANGED <<pc, data, items>>
          ELSE IF "logType" \notin DOMAIN item.spec
          THEN /\ pc' = "panic"
               /\ UNCHANGED <<i, data, items>>
          ELSE \E ok \in GetResults(item) :
                 IF ok
                 THEN /\ data' = data \o LanguageEntries(item) \o ApplicationEntries(item)
                                      \o BareEntries(item)
                      /\ items' = [items EXCEPT ![i].status.phase = "Projected"]
                      /\ i' = i + 1
                      /\ UNCHANGED pc
                 ELSE /\ pc' = "panic"
                      /\ UNCHANGED <<i, data, items>>
    /\ UNCHANGED status
    /\ UNCHANGED annotateVars

\* One iteration of the range loop over the items. `spec["logType"].(string)`
\* panics when the spec has no logType, and a Get that fails runs
\* `err.Error()` on the nil err of the enclosing function: in both cases the
\* handler's goroutine panics and no response is written.
ProjectItem ==
    /\ pc = "range"
    /\ i \in DOMAIN items
    /\ LET item == items[i]
       IN IF IsInternalResource(item.name)
          THEN /\ i' = i + 1
               /\ UNCHANGED <<pc, data>>
          ELSE IF "logType" \notin DOMAIN item.spec
          THEN /\ pc' = "panic"
               /\ UNCHANGED <<i, data>>
          ELSE \E ok \in GetResults(item) :
                 IF ok
                 THEN /\ data' = data \o LanguageEntries(item) \o ApplicationEntries(item)
                                      \o BareEntries(item)
                      /\ i' = i + 1
                      /\ UNCHANGED pc
                 ELSE /\ pc' = "panic"
                      /\ UNCHANGED <<i, data>>
    /\ UNCHANGED <<status, items>>
    /\ UNCHANGED annotateVars

\* After the loop: 200 and the encoded data.
RespondState ==
    /\ pc = "range"
    /\ i \notin DOMAIN items
    /\ status' = StatusOK
    /\ pc' = "done"
    /\ UNCHANGED <<i, items, data>>
    /\ UNCHANGED annotateVars

NextState ==
    \/ ListResources
    \/ ProjectItem
    \/ RespondState

\* The server's routes together: a request is an annotate request or a state read.
InitServer == Init \/ InitState

NextServer ==
    \/ handler \in {"traces", "logs"} /\ Next
    \/ handler = "state" /\ NextState

SpecServer == InitServer /\ [][NextServer]_vars

SpecServiceName == InitServiceName /\ [][NextState]_vars

SpecState == InitState /\ [][NextState]_vars

\* ------------------------------------------------- two requests at a time
\* A traces request and a logs request, of one item each, for the same
\* workload, served by two goroutines of the server.
ConcurrentHandlers == {"traces", "logs"}

\* What the workload's pod template carries when the requests arrive.
ConcurrentAnnotations ==
    {InitAnnotations,
     SetKey(SetKey(InitAnnotations, InstrumentationAnnotation, "rollback"),
            LogTypeAnnotation, "apache")}

InitConcurrent ==
    /\ handler = "concurrent"
    /\ resources = <<>>
    /\ pc = "serve"
    /\ i = 1
    /\ status = NoStatus
    /\ responses = <<>>
    /\ ctx = "none"
    /\ obj = EmptyMap
    /\ \E ann \in ConcurrentAnnotations :
          workloads = [w \in WorkloadIds |-> IF w = PolicyTarget THEN ann ELSE InitAnnotations]
    /\ cr = [n \in Names |-> [status |-> [tracesInstrumented |-> "false"], spec |-> EmptyMap]]
    /\ events = 0
    /\ stale = FALSE
    /\ informer = <<>>
    /\ updateCh = <<>>
    /\ gets = <<>>
    /\ puts = <<>>
    /\ written = {}
    /\ qualified = {}
    /\ outcome = <<>>
    /\ items = <<>>
    /\ data = <<>>
    /\ version = 0
    /\ \E t \in PolicyRequests("traces") : \E l \in PolicyRequests("logs") :
          reqs = [h \in ConcurrentHandlers |->
                    [req |-> IF h = "traces" THEN t ELSE l,
                     pc |-> "get", obj |-> EmptyMap, rv |-> 0]]

concurrentVars ==
    <<handler, resources, pc, i, status, responses, ctx, obj, cr, events, stale, informer,
      updateCh, gets, puts, written, qualified, outcome, items, data>>

\* The pod-template annotations of the fetched object after request h's change.
ConcurrentModified(h, ann, resource) ==
    IF h = "logs"
    THEN ApplyLogType(ann, resource.log_type)
    ELSE MergeAnnotations(ann, TracesAnnotations(resource))

\* Request h's Get: the object with the resourceVersion it has now, or an error.
ConcurrentGet(h) ==
    /\ reqs[h].pc = "get"
    /\ \E ok \in BOOLEAN :
          reqs' = IF ok
                  THEN [reqs EXCEPT ![h].pc = "update",
                                    ![h].obj = workloads[PolicyTarget],
                                    ![h].rv = version]
                  ELSE [reqs EXCEPT ![h].pc = "error"]
    /\ UNCHANGED <<workloads, version>>
    /\ UNCHANGED concurrentVars

\* Mutant: the API server takes the object whatever resourceVersion it carries.
ConcurrentUpdateLastWriteWins(h) ==
    /\ reqs[h].pc = "update"
    /\ \E ok \in BOOLEAN :
          IF ok
          THEN /\ workloads' = [workloads EXCEPT
                     ![PolicyTarget] = ConcurrentModified(h, reqs[h].obj, reqs[h].req)]
               /\ version' = version + 1
               /\ reqs' = [reqs EXCEPT ![h].pc = "select"]
          ELSE /\ reqs' = [reqs EXCEPT ![h].pc = "error"]
               /\ UNCHANGED <<workloads, version>>
    /\ UNCHANGED concurrentVars

\* Request h's Update of the whole fetched object: it is refused when the
\* workload's resourceVersion is no longer the one fetched, and may fail
\* otherwise too; the handler answers 500 on any error.
ConcurrentUpdate(h) ==
    /\ reqs[h].pc = "update"
    /\ \E ok \in (IF reqs[h].rv = version THEN BOOLEAN ELSE {FALSE}) :
          IF ok
          THEN /\ workloads' = [workloads EXCEPT
                     ![PolicyTarget] = ConcurrentModified(h, reqs[h].obj, reqs[h].req)]
               /\ version' = version + 1
               /\ reqs' = [reqs EXCEPT ![h].pc = "select"]
          ELSE /\ reqs' = [reqs EXCEPT ![h].pc = "error"]
               /\ UNCHANGED <<workloads, version>>
    /\ UNCHANGED concurrentVars

\* Request h's select: the signal of its watch, or the deadline.
ConcurrentSelect(h) ==
    /\ reqs[h].pc = "select"
    /\ \E result \in {"confirmed", "timedOut"} : reqs' = [reqs EXCEPT ![h].pc = result]
    /\ UNCHANGED <<workloads, version>>
    /\ UNCHANGED concurrentVars

NextConcurrent ==
    \/ \E h \in ConcurrentHandlers : ConcurrentGet(h)
    \/ \E h \in ConcurrentHandlers : ConcurrentUpdate(h)
    \/ \E h \in ConcurrentHandlers : ConcurrentSelect(h)

SpecConcurrent == InitConcurrent /\ [][NextConcurrent]_vars

\* ================================================================ claims
\* The workload item n addresses, and whether its pod-template annotations
\* carry what item n asked for.
Target(n) ==
    <<IF resources[n].kind = "deployment" THEN "Deployment" ELSE "StatefulSet",
      resources[n].name>>

Reflects(ann, resource) ==
    IF handler = "logs"
    THEN IF resource.log_type # ""
         THEN LogTypeAnnotation \in DOMAIN ann /\ ann[LogTypeAnnotation] = resource.log_type
         ELSE LogTypeAnnotation \notin DOMAIN ann
    ELSE /\ InstrumentationAnnotation \in DOMAIN ann
         /\ ann[InstrumentationAnnotation] =
                (IF resource.action = "delete" THEN "rollback" ELSE "true")

\* Item n is the last item of the batch written to its workload.
LastWriter(n) == \A m \in written : m > n => Target(m) # Target(n)

\* The annotations written for the items up to k are in place.
WritesKept(k) ==
    \A n \in written : (n <= k /\ LastWriter(n)) => Reflects(workloads[Target(n)], resources[n])

HasInvalidItem ==
    \E n \in Idx :
        \/ resources[n].kind \notin {"deployment", "statefulset"}
        \/ resources[n].action \notin {"add", "delete"}

\* C1: a batch with an item whose controller_kind is outside {deployment,
\* statefulset} or whose action is outside {add, delete} is answered 400 and
\* no workload is written for any item, also not for the valid items before
\* the invalid one. (Stated of the traces handler of api/annotate/traces.go.)
C1_InvalidBatchRejectedWithoutWrites ==
    HasInvalidItem =>
        /\ status \in {NoStatus, StatusBadRequest}
        /\ written = {}
        /\ \A n \in Idx : puts[n] = 0

\* C2: no validated item, deployment or statefulset, reaches the wait for its
\* confirmation or the success response without its workload having been
\* read and updated.
C2_ValidatedItemUpdatedBeforeWait ==
    \A n \in Idx :
        ((pc = "select" /\ i = n) \/ outcome[n] \in {"confirmed", "timedOut"}
            \/ status = StatusOK)
        => n \in written

\* C3: the request ends with 200 only if every item's watch saw, before the
\* deadline, an update event whose watched sub-document differs; the wait of
\* an item with no such event has nothing to receive, so that only the
\* deadline resolves it.
C3_OkOnlyAfterQualifyingEvents ==
    /\ status = StatusOK => \A n \in Idx : n \in qualified
    /\ \A n \in Idx : outcome[n] = "confirmed" => n \in qualified
    /\ (pc = "select" /\ i \notin qualified) => updateCh[i] = 0 /\ ~ENABLED SelectUpdate

C3_Witness ==
    /\ status = StatusOK
    /\ Len(resources) = 2
    /\ \A n \in Idx : outcome[n] = "confirmed" /\ n \in qualified

\* C4: when an item's workload Update is issued, the item's watch is already
\* active and able to receive update events.
C4_WatchActiveAtUpdate ==
    [][puts' # puts => informer[i] = "running"]_vars

\* C5: when no change of the watched sub-document was seen for an item before
\* the deadline, the request ends with 500, and the annotations written for
\* the timed-out item stay applied: one Update per item, no write after it.
C5_TimeoutIs500AndKeepsAnnotations ==
    /\ (pc = "done" /\ status # StatusBadRequest /\ \E n \in Idx : n \notin qualified)
         => status = StatusInternalServerError
    /\ \A n \in Idx :
         outcome[n] = "timedOut" =>
            /\ status = StatusInternalServerError
            /\ puts[n] <= 1
            /\ n \in written => Reflects(workloads[Target(n)], resources[n])

C5_Witness ==
    \E n \in Idx :
        /\ outcome[n] = "timedOut"
        /\ n \in written
        /\ n \notin qualified
        /\ Reflects(workloads[Target(n)], resources[n])
        /\ ~Reflects(InitAnnotations, resources[n])

\* C6: when item k times out, no later item is read, updated or watched, and
\* the annotations written for the earlier items are still in place.
C6_TimeoutAbortsBatch ==
    \A k \in Idx :
        outcome[k] = "timedOut" =>
            /\ pc = "done"
            /\ \A n \in Idx : n > k =>
                  gets[n] = 0 /\ puts[n] = 0 /\ n \notin written /\ informer[n] = "none"
            /\ \A n \in Idx : n < k => outcome[n] = "confirmed" /\ puts[n] <= 1
            /\ WritesKept(k)

C6_Witness ==
    /\ Len(resources) = 2
    /\ outcome[1] = "confirmed"
    /\ 1 \in written
    /\ outcome[2] = "timedOut"
    /\ Target(1) # Target(2)
    /\ Reflects(workloads[Target(1)], resources[1])

\* C7: when the Get or the Update of item k fails, the request ends there with
\* 500; no call is issued twice, no later item is read or written, and the
\* annotations written for the earlier items are still in place.
C7_ApiErrorAbortsBatch ==
    /\ \A n \in Idx : gets[n] <= 1 /\ puts[n] <= 1
    /\ \A k \in Idx :
         outcome[k] = "error" =>
            /\ pc = "done"
            /\ status = StatusInternalServerError
            /\ k \notin written
            /\ \A n \in Idx : n > k => gets[n] = 0 /\ puts[n] = 0 /\ n \notin written
            /\ WritesKept(k)

C7_Witness ==
    /\ Len(resources) = 2
    /\ 1 \in written
    /\ outcome[2] = "error"
    /\ puts[2] = 1
    /\ Reflects(workloads[Target(1)], resources[1])

\* C8: items are processed in request order, one at a time: neither the Get
\* nor the Update of item n+1 is issued before item n is Confirmed.
C8_SequentialItems ==
    \A n \in Idx :
        (n > 1 /\ (gets[n] > 0 \/ puts[n] > 0 \/ informer[n] # "none"))
            => outcome[n - 1] = "confirmed"

C8_Witness ==
    /\ Len(resources) = 2
    /\ puts[2] > 0
    /\ 1 \in written

\* C9: an item's watch is stopped once the item is confirmed or timed out, and
\* after the request has ended no watch is active and no UpdateFunc call of
\* the request is blocked.
C9_WatchReleased ==
    /\ \A n \in Idx : outcome[n] \in {"confirmed", "timedOut"} => informer[n] = "stopped"
    /\ pc = "done" =>
          \A n \in Idx : informer[n] \in {"none", "stopped"} /\ updateCh[n] = 0

\* C10: every request eventually gets its response: with the handler and the
\* deadline timer scheduled fairly, no wait for a change event lasts forever.
C10_RequestEventuallyAnswered == <>(pc = "done" /\ status # NoStatus)

C10_Witness ==
    /\ pc = "done"
    /\ \E n \in Idx : outcome[n] = "timedOut" /\ n \notin qualified /\ updateCh[n] = 0

\* The claim's acceptance rule for one item.
AcceptedByRule(req) ==
    /\ ToLower(req.kind) \in {"deployment", "statefulset"}
    /\ handler = "logs" \/ req.action \in {"add", "delete"}

\* C11: an item passes validation exactly when its controller_kind, compared
\* without regard to case, is deployment or statefulset and, for a traces
\* request, its action is add or delete: a batch is answered 400 by the
\* validation step exactly when one of its items fails that rule, and an item
\* validated inside the loop goes on to the switch only if it meets the rule.
C11_ValidationIsCaseInsensitive ==
    /\ (handler \in {"traces", "logs"} /\ pc # "validate") =>
          (status = StatusBadRequest <=> \E n \in Idx : ~AcceptedByRule(resources[n]))
    /\ (handler = "legacy" /\ pc = "switch") => AcceptedByRule(resources[i])

\* An item has been applied to the workload and nothing came after it.
PolicyApplied == pc = "decode" /\ resources # <<>>

\* C12: for a traces item the delta is logz.io/traces_instrument = "true" on
\* add and "rollback" on delete, plus logz.io/service-name = the given name
\* exactly when service_name is not empty, and no other key; that delta is
\* what the workload carries after the item.
C12_TracesDelta ==
    (PolicyApplied /\ (handler = "traces" \/ resources[1].telemetry_type = "traces")) =>
        LET r == resources[1]
            delta == responses[1].updated_annotations
            expected ==
                {InstrumentationAnnotation} \cup
                    (IF r.service_name # "" THEN {ServiceNameAnnotation} ELSE {})
        IN /\ DOMAIN delta = expected
           /\ delta[InstrumentationAnnotation] =
                  (IF r.action = "add" THEN "true" ELSE "rollback")
           /\ r.service_name # "" => delta[ServiceNameAnnotation] = r.service_name
           /\ \A k \in expected :
                  k \in DOMAIN workloads[PolicyTarget] /\ workloads[PolicyTarget][k] = delta[k]

\* C13: a logs item with a non-empty log_type sets the workload's
\* logz.io/application_type annotation to that value; with an empty log_type
\* the key is removed, and the workload never carries the key with the empty
\* string as its value.
C13_EmptyLogTypeRemovesKey ==
    /\ (PolicyApplied /\ handler \in {"logs", "legacylogs"}) =>
          IF resources[1].log_type # ""
          THEN /\ LogTypeAnnotation \in DOMAIN workloads[PolicyTarget]
               /\ workloads[PolicyTarget][LogTypeAnnotation] = resources[1].log_type
          ELSE LogTypeAnnotation \notin DOMAIN workloads[PolicyTarget]
    /\ LogTypeAnnotation \in DOMAIN workloads[PolicyTarget] =>
          workloads[PolicyTarget][LogTypeAnnotation] # ""

\* The request item the k-th entry of responses was appended for: an entry is
\* appended exactly when an item's Update succeeds.
ResponseItem(k) == CHOOSE n \in written : Cardinality({m \in written : m <= n}) = k

\* C14: in the success response of a logs request, the updated_annotations of
\* an item with an empty log_type does not contain logz.io/application_type.
C14_ResponseOmitsRemovedKey ==
    (handler = "logs" /\ status = StatusOK) =>
        \A k \in DOMAIN responses :
            resources[ResponseItem(k)].log_type = "" =>
                LogTypeAnnotation \notin DOMAIN responses[k].updated_annotations

\* The keys the annotate operations target.
WellKnownKeys == {InstrumentationAnnotation, ServiceNameAnnotation, LogTypeAnnotation}

\* C15: whatever sequence of annotate items has been applied, every
\* pod-template annotation key other than the well-known keys is still there
\* with the value it had before.
C15_UnrelatedKeysKept ==
    \A w \in WorkloadIds :
        \A k \in DOMAIN InitAnnotations \ WellKnownKeys :
            k \in DOMAIN workloads[w] /\ workloads[w][k] = InitAnnotations[k]

C15_Witness ==
    /\ PolicyApplied
    /\ WellKnownKeys \subseteq DOMAIN workloads[PolicyTarget]
    /\ DOMAIN InitAnnotations \subseteq DOMAIN workloads[PolicyTarget]
    /\ DOMAIN InitAnnotations \ WellKnownKeys # {}

\* C16: applying the item that was just applied once more to the same
\* workload gives the pod-template annotations the workload already has.
C16_ApplyTwiceIsApplyOnce ==
    PolicyApplied =>
        PolicyModified(workloads[PolicyTarget], resources[1]) = workloads[PolicyTarget]

\* A logs item with an empty log_type has removed a key that was there.
C16_Witness ==
    /\ PolicyApplied
    /\ handler = "logs"
    /\ resources[1].log_type = ""
    /\ LogTypeAnnotation \in DOMAIN obj
    /\ obj # workloads[PolicyTarget]

\* C17: when the request ends with 200, responses has one entry per request
\* item, in request order, each with the item's name and controller_kind and
\* the annotations map built for the item.
C17_OneResponsePerItem ==
    status = StatusOK =>
        /\ Len(responses) = Len(resources)
        /\ \A n \in DOMAIN responses :
              n \in Idx =>
                /\ responses[n].name = resources[n].name
                /\ responses[n].kind = resources[n].kind
                /\ responses[n].updated_annotations = Annotations(resources[n])

\* C18: once another writer has changed the workload after the handler's
\* Get, the handler's Update is refused and ends the request with 500; the
\* handler does not read the workload again and writes nothing to it.
C18_ConflictIsNotRetried ==
    [][stale =>
          /\ gets' = gets
          /\ workloads' = workloads
          /\ written' = written
          /\ puts' # puts =>
                (pc' = "done" /\ status' = StatusInternalServerError
                    /\ outcome'[i] = "error")]_vars

C18_Witness ==
    /\ stale
    /\ pc = "done"
    /\ status = StatusInternalServerError
    /\ gets[i] = 1
    /\ puts[i] = 1
    /\ i \notin written
    /\ outcome[i] = "error"
    /\ i = 2
    /\ 1 \in written
    /\ "owner" \in DOMAIN workloads[Target(i)]

\* The positions in data of the records built from item n.
RecordsOf(n) == {k \in DOMAIN data : data[k].name = items[n].name}

\* C19: in the 200 answer, a resource that is not internal and has a
\* languages list of N entries has exactly N records, one per entry with the
\* entry's container_name and language, all with the resource's name,
\* namespace and detection_status.
C19_OneRecordPerLanguage ==
    (pc = "done" /\ status = StatusOK) =>
        \A n \in DOMAIN items :
            (~IsInternalResource(items[n].name) /\ "languages" \in DOMAIN items[n].spec) =>
                LET languages == items[n].spec["languages"]
                IN /\ Cardinality(RecordsOf(n)) = Len(languages)
                   /\ \A k \in RecordsOf(n) :
                         /\ data[k].namespace = items[n].namespace
                         /\ data[k].detection_status = items[n].status.phase
                   /\ \A j \in DOMAIN languages :
                         \E k \in RecordsOf(n) :
                            /\ data[k].container_name = languages[j].containerName
                            /\ data[k].language = languages[j].language

\* C20: no resource has both a record built from a languages entry and a
\* record built from an applications entry.
C20_BranchesExclusive ==
    \A n \in DOMAIN items :
        ~(/\ \E k \in RecordsOf(n) : data[k].language # Null
          /\ \E k \in RecordsOf(n) : data[k].application # Null)

\* A detection list of the item that has at least one entry.
Populated(item, key) == key \in DOMAIN item.spec /\ Len(item.spec[key]) > 0

\* C21: in the 200 answer, a resource that is not internal and has neither a
\* populated languages list nor a populated applications list has exactly one
\* record, whose container_name, application and language are null and whose
\* traces_instrumentable is false.
C21_OneBareRecord ==
    (pc = "done" /\ status = StatusOK) =>
        \A n \in DOMAIN items :
            (/\ ~IsInternalResource(items[n].name)
             /\ ~Populated(items[n], "languages")
             /\ ~Populated(items[n], "applications")) =>
                /\ Cardinality(RecordsOf(n)) = 1
                /\ \A k \in RecordsOf(n) :
                      /\ data[k].container_name = Null
                      /\ data[k].application = Null
                      /\ data[k].language = Null
                      /\ data[k].traces_instrumentable = FALSE

\* C22: a record has traces_instrumentable = true exactly when it was built
\* from a languages entry; the records built from an applications entry and
\* the record of a resource without a list have it false.
C22_InstrumentableIffLanguage ==
    \A k \in DOMAIN data :
        /\ data[k].traces_instrumentable <=> data[k].language # Null
        /\ data[k].application # Null => ~data[k].traces_instrumentable
        /\ data[k].container_name = Null => ~data[k].traces_instrumentable

\* An answer with a record of each of the three kinds.
C22_Witness ==
    /\ pc = "done"
    /\ status = StatusOK
    /\ \E k \in DOMAIN data : data[k].language # Null /\ data[k].traces_instrumentable
    /\ \E k \in DOMAIN data : data[k].application # Null /\ ~data[k].traces_instrumentable
    /\ \E k \in DOMAIN data : data[k].container_name = Null /\ ~data[k].traces_instrumentable

\* The listed names the claim calls internal: one that contains "ezkonnect"
\* and the instrumentor's own.
InternalNames == {"ezkonnect-internal-foo", "kubernetes-instrumentor"}

\* C23: a resource whose name contains "ezkonnect" or is
\* "kubernetes-instrumentor" never contributes a record, whatever its spec and
\* status; every other listed resource is projected: in the 200 answer its
\* detection entries and its list-less record are there.
C23_InternalResourcesSkipped ==
    /\ \A k \in DOMAIN data : data[k].name \notin InternalNames
    /\ (pc = "done" /\ status = StatusOK) =>
           \A n \in DOMAIN items :
               IF items[n].name \in InternalNames
               THEN RecordsOf(n) = {}
               ELSE (\/ Populated(items[n], "languages")
                     \/ Populated(items[n], "applications")
                     \/ DOMAIN items[n].spec \cap {"languages", "applications"} = {})
                       => RecordsOf(n) # {}

\* An answer for an internal resource that has detection entries and a
\* resource that is not internal.
C23_Witness ==
    /\ pc = "done"
    /\ status = StatusOK
    /\ \E n \in DOMAIN items :
          /\ items[n].name = "ezkonnect-internal-foo"
          /\ Populated(items[n], "languages")
    /\ \E n \in DOMAIN items :
          /\ items[n].name \notin InternalNames
          /\ RecordsOf(n) # {}

\* The service-name annotation of a workload's pod template, "" when it has none.
ServiceAnnotationOf(w) ==
    IF ServiceNameAnnotation \in DOMAIN workloads[w] THEN workloads[w][ServiceNameAnnotation] ELSE ""

C25_LanguageRecordsHaveServiceName ==
    \A k \in DOMAIN data :
        data[k].language # Null => data[k].service_name \notin {"", Null}

\* The request ended because listing the custom resources failed.
ListFailed == pc = "done" /\ status # StatusOK

\* The request ended because fetching the owner of item i failed.
GetFailed == pc = "panic" /\ "logType" \in DOMAIN items[i].spec

\* C26: when listing the custom resources or fetching an owning workload
\* fails, the answer is 500 and carries no record.
C26_ClusterFailureIs500 ==
    (ListFailed \/ GetFailed) => status = StatusInternalServerError

\* C27: a resource whose spec has no logType does not stop the projection:
\* the request is answered, and the resource's records have a null log_type.
C27_MissingLogTypeIsNull ==
    /\ pc = "panic" => "logType" \in DOMAIN items[i].spec
    /\ (pc = "done" /\ status = StatusOK) =>
           \A n \in DOMAIN items :
               "logType" \notin DOMAIN items[n].spec =>
                   \A k \in RecordsOf(n) : data[k].log_type = Null

\* C28: no step creates, updates or deletes a listed custom resource; a step
\* of a state read changes no custom resource and no workload; and a step
\* that changes a custom resource is never a step of a request handler: the
\* handler's position, its answer and the workloads stay as they are.
C28_CustomResourcesNeverWritten ==
    [][/\ items' = items
       /\ handler = "state" => (workloads' = workloads /\ cr' = cr)
       /\ cr' # cr => UNCHANGED <<pc, i, status, responses, workloads, gets, puts, written>>]_vars

\* A state read that has answered with records.
C28_Witness ==
    /\ handler = "state"
    /\ pc = "done"
    /\ status = StatusOK
    /\ Len(data) >= 2
    /\ Len(items) >= 2

\* The custom resource item k watches.
Watched(k) == cr[resources[k].name]

\* C29: a step sends on a traces item's channel only if it changes the status
\* of the item's custom resource, and on a logs item's channel only if it
\* changes the spec; a step that changes only the other sub-document, or
\* neither, sends nothing, and an item is confirmed only from such a send.
C29_OnlyTheWatchedSubDocumentConfirms ==
    [][\A k \in Idx :
          /\ updateCh'[k] > updateCh[k] =>
                IF handler = "traces"
                THEN cr'[resources[k].name].status # Watched(k).status
                ELSE cr'[resources[k].name].spec # Watched(k).spec
          /\ (outcome'[k] = "confirmed" /\ outcome[k] # "confirmed") =>
                updateCh'[k] = updateCh[k] - 1]_vars

\* A traces item timed out although the spec of its custom resource changed
\* while it was waiting.
C29_Witness ==
    /\ handler = "traces"
    /\ 1 \in Idx
    /\ outcome[1] = "timedOut"
    /\ 1 \in written
    /\ Watched(1).spec # EmptyMap
    /\ Watched(1).status = [tracesInstrumented |-> "false"]
    /\ updateCh[1] = 0

\* C30: an update event that leaves the custom resources as they were, such
\* as the resync, sends nothing to any waiting item, and an event that changes
\* the watched sub-document of a running watch sends to it.
C30_EqualDocumentsNeverResolve ==
    [][/\ cr' = cr => \A k \in Idx : updateCh'[k] <= updateCh[k]
       /\ \A k \in Idx :
             (/\ informer[k] = "running"
              /\ (IF handler = "traces"
                   THEN cr'[resources[k].name].status # Watched(k).status
                   ELSE cr'[resources[k].name].spec # Watched(k).spec))
               => updateCh'[k] = updateCh[k] + 1]_vars

\* An item timed out after the one update event there was, which left the
\* custom resources as they were: a resync heard by a running watch.
C30_Witness ==
    /\ events = 1
    /\ 1 \in Idx
    /\ \A n \in Names : cr[n] = [status |-> [tracesInstrumented |-> "false"], spec |-> EmptyMap]
    /\ outcome[1] = "timedOut"
    /\ 1 \in written
    /\ updateCh[1] = 0

\* C31: every item has its own channel, fed only by changes of the custom
\* resource that has the item's name: a step that leaves that resource as it
\* was sends nothing to the item, the confirmation of an item takes one signal
\* from its own channel and none from another's, and after an item timed out
\* the answer is 500 and no later item is confirmed.
C31_WatchPerItem ==
    [][\A k \in Idx :
          /\ updateCh'[k] > updateCh[k] =>
                cr'[resources[k].name] # cr[resources[k].name]
          /\ (outcome'[k] = "confirmed" /\ outcome[k] # "confirmed") =>
                /\ updateCh'[k] = updateCh[k] - 1
                /\ \A j \in Idx \ {k} : updateCh'[j] = updateCh[j]
          /\ outcome[k] = "timedOut" =>
                /\ status' = StatusInternalServerError
                /\ \A j \in Idx : j > k => outcome'[j] = "none"]_vars

\* The first item, for web, timed out with nothing received although the
\* custom resource db changed twice; the second item was never waited for.
C31_Witness ==
    /\ Len(resources) = 2
    /\ resources[1].name = "web"
    /\ outcome[1] = "timedOut"
    /\ outcome[2] = "none"
    /\ 1 \in written
    /\ updateCh[1] = 0
    /\ events = 2
    /\ cr["web"] = [status |-> [tracesInstrumented |-> "false"], spec |-> EmptyMap]
    /\ cr["db"] = [status |-> [tracesInstrumented |-> "true"], spec |-> [logType |-> "nginx"]]

\* C32: the batch has one deadline, set when the request is accepted, before
\* the first item: once elapsed it stays elapsed, a confirmation leaves it as
\* it is, and the handler's only step from a wait with the deadline elapsed
\* and nothing to receive is the timeout of the item, with 500.
C32_SharedDeadline ==
    [][/\ ctx = "done" => ctx' = "done"
       /\ (ctx = "none" /\ ctx' # "none") => (pc = "validate" /\ i = 1 /\ puts = [k \in Idx |-> 0])
       /\ (\E k \in Idx : outcome'[k] = "confirmed" /\ outcome[k] # "confirmed") => ctx' = ctx
       /\ (pc = "select" /\ ctx = "done" /\ updateCh[i] = 0 /\ pc' # pc) =>
             /\ outcome'[i] = "timedOut"
             /\ status' = StatusInternalServerError]_vars

\* The second item was written and timed out after the first was confirmed:
\* its watch was never running and nothing was sent to it.
C32_Witness ==
    /\ Len(resources) = 2
    /\ outcome[1] = "confirmed"
    /\ outcome[2] = "timedOut"
    /\ 2 \in written
    /\ 2 \notin qualified
    /\ updateCh[2] = 0
    /\ status = StatusInternalServerError

\* C33: every record of the answer has the tracesInstrumented of its
\* resource's status as traces_instrumented and the detection phase of that
\* status as detection_status, in the languages branch, in the applications
\* branch and in the branch of a resource without lists.
C33_StatusCopied ==
    \A n \in DOMAIN items :
        \A k \in RecordsOf(n) :
            /\ data[k].traces_instrumented = items[n].status.tracesInstrumented
            /\ data[k].detection_status = items[n].status.phase

\* An answer with the records of an instrumented and of a not instrumented
\* resource, from the three branches.
C33_Witness ==
    /\ pc = "done"
    /\ status = StatusOK
    /\ \E k \in DOMAIN data : data[k].traces_instrumented /\ data[k].detection_status = "Completed"
    /\ \E k \in DOMAIN data : ~data[k].traces_instrumented /\ data[k].detection_status = "Running"
    /\ \E k \in DOMAIN data : data[k].language # Null
    /\ \E k \in DOMAIN data : data[k].application # Null
    /\ \E k \in DOMAIN data : data[k].container_name = Null

\* C34: applying an item to a workload whose pod template has no annotation
\* map does not fail, and afterwards the map holds exactly the keys the item
\* sets: those of the traces delta, the log type key for a logs item with a
\* log type, and no key for a logs item with an empty log type.
C34_LazyMapInit ==
    /\ pc # "panic"
    /\ (PolicyApplied /\ IsNilMap(obj)) =>
          LET r == resources[1]
              ann == workloads[PolicyTarget]
          IN IF handler \in {"logs", "legacylogs"}
             THEN /\ r.log_type # "" => ann = SetKey(EmptyMap, LogTypeAnnotation, r.log_type)
                  /\ r.log_type = "" => ann = EmptyMap
             ELSE ann = responses[1].updated_annotations

\* C35: an item is confirmed only by a change of its custom resource made
\* after its workload update was written: at the step that writes the update
\* no signal of an earlier change waits on the item's channel to confirm it.
C35_ConfirmedOnlyByLaterChange ==
    [][(i \in Idx /\ i \notin written /\ i \in written') => updateCh'[i] = 0]_vars

\* Request h got through its Get and its Update without an error.
Updated(h) == reqs[h].pc \in {"select", "confirmed", "timedOut"}

\* C36: when a traces request and a logs request for the same workload run
\* at the same time and both get through Get and Update without an error, the
\* workload's pod template carries both changes: the keys of the traces item
\* with its values, and the log type of the logs item, or no log type key
\* when that is empty.
C36_NoLostUpdate ==
    (handler = "concurrent" /\ Updated("traces") /\ Updated("logs")) =>
        LET ann == workloads[PolicyTarget]
            delta == TracesAnnotations(reqs["traces"].req)
            value == reqs["logs"].req.log_type
        IN /\ \A k \in DOMAIN delta : k \in DOMAIN ann /\ ann[k] = delta[k]
           /\ value # "" => (LogTypeAnnotation \in DOMAIN ann /\ ann[LogTypeAnnotation] = value)
           /\ value = "" => LogTypeAnnotation \notin DOMAIN ann

\* Both requests are through, on a workload that had other values before:
\* the second one fetched the workload after the first one's update.
C36_Witness ==
    /\ handler = "concurrent"
    /\ Updated("traces")
    /\ Updated("logs")
    /\ version = 2
    /\ reqs["traces"].req.action = "add"
    /\ reqs["logs"].req.log_type = "nginx"
    /\ InstrumentationAnnotation \in DOMAIN reqs["traces"].obj
    /\ reqs["traces"].obj[InstrumentationAnnotation] = "rollback"
    /\ reqs["traces"].obj[LogTypeAnnotation] = "nginx"

\* C37: over any sequence of requests on a workload, the key
\* logz.io/traces_instrument, once there, is never removed, its value is
\* "true" or "rollback", a traces item leaves it at "true" for add and at
\* "rollback" for delete, and an item of another handler leaves the key as it
\* was.
C37_TracesKeyKept ==
    [][LET before == workloads[PolicyTarget]
           after == workloads'[PolicyTarget]
           has(ann) == InstrumentationAnnotation \in DOMAIN ann
       IN /\ has(before) => has(after)
          /\ has(after) => after[InstrumentationAnnotation] \in {"true", "rollback"}
          /\ (handler = "traces" /\ pc = "update" /\ pc' = "decode") =>
                /\ has(after)
                /\ after[InstrumentationAnnotation] =
                       (IF resources[1].action = "add" THEN "true" ELSE "rollback")
          /\ handler # "traces" =>
                /\ has(after) = has(before)
                /\ has(before) =>
                       after[InstrumentationAnnotation] = before[InstrumentationAnnotation]]_vars

\* A logs item was applied to a workload that a traces delete had marked
\* before: the mark is still there.
C37_Witness ==
    /\ PolicyApplied
    /\ handler = "logs"
    /\ resources[1].log_type = ""
    /\ InstrumentationAnnotation \in DOMAIN workloads[PolicyTarget]
    /\ workloads[PolicyTarget][InstrumentationAnnotation] = "rollback"
    /\ ServiceNameAnnotation \in DOMAIN workloads[PolicyTarget]

\* The number of entries of a detection list of the item, 0 when it has none.
Entries(item, key) == IF key \in DOMAIN item.spec THEN Len(item.spec[key]) ELSE 0

\* C38: in the 200 answer, a resource that is not internal has as many
\* records as its languages and applications lists have entries together when
\* its spec has at least one of the lists, and one record when it has
\* neither; a resource whose only list is empty has none.
C38_RecordCount ==
    (pc = "done" /\ status = StatusOK) =>
        \A n \in DOMAIN items :
            ~IsInternalResource(items[n].name) =>
                Cardinality(RecordsOf(n)) =
                    (IF DOMAIN items[n].spec \cap {"languages", "applications"} # {}
                     THEN Entries(items[n], "languages") + Entries(items[n], "applications")
                     ELSE 1)

\* An answer for a resource with an empty languages list, which has no
\* record, and a resource with entries in both lists.
C38_Witness ==
    /\ pc = "done"
    /\ status = StatusOK
    /\ \E n \in DOMAIN items :
          /\ ~IsInternalResource(items[n].name)
          /\ "languages" \in DOMAIN items[n].spec
          /\ Entries(items[n], "languages") = 0
          /\ "applications" \notin DOMAIN items[n].spec
          /\ RecordsOf(n) = {}
    /\ \E n \in DOMAIN items :
          /\ Entries(items[n], "languages") = 2
          /\ Entries(items[n], "applications") = 1
          /\ Cardinality(RecordsOf(n)) = 3

====
